---- MODULE Spec2Model ----
(***************************************************************************)
(* A model of the Pext "pass" module (src/__init__.py): the Module class,  *)
(* its three host entry points (init, process_response, selection_made),   *)
(* the prompt-continuation operations (_add_otp .. _rename) and the action *)
(* queue they write to.                                                    *)
(*                                                                         *)
(* Text.  A Python str is modelled as a sequence of atoms.  An atom is a   *)
(* TLA+ string standing for a fixed, non-empty piece of text that is either*)
(* one whitespace character (" ", NL) or free of whitespace.  The atoms    *)
(* used form a uniquely decodable code, so two sequences are equal exactly *)
(* when the texts they stand for are equal, and str.split, str.join,       *)
(* str.format, str.rstrip and str.splitlines are computed atom by atom.    *)
(*                                                                         *)
(* Python values (None, str, bool, int) are records of one shape, so that  *)
(* any two of them can be compared.                                        *)
(***************************************************************************)
EXTENDS Integers, Sequences, FiniteSets, TLC

\* ------------------------------------------------------------------ bounds

\* Host events handled after init in one behaviour.
MaxSteps == 3

\* ------------------------------------------------------------- Python text

NL == "\\n"
Whitespace == {" ", NL}
Digits == <<"0", "1", "2", "3", "4", "5", "6", "7", "8", "9">>

RECURSIVE SplitFrom(_, _, _)
SplitFrom(s, i, cur) ==
    IF i > Len(s)
    THEN (IF cur = <<>> THEN <<>> ELSE <<cur>>)
    ELSE IF s[i] \in Whitespace
         THEN (IF cur = <<>> THEN <<>> ELSE <<cur>>) \o SplitFrom(s, i + 1, <<>>)
         ELSE SplitFrom(s, i + 1, Append(cur, s[i]))

\* str.split(): the maximal whitespace-free runs of s, in order.
split(s) == SplitFrom(s, 1, <<>>)

RECURSIVE join(_, _)
\* sep.join(words)
join(sep, words) ==
    IF words = <<>> THEN <<>>
    ELSE IF Len(words) = 1 THEN words[1]
         ELSE words[1] \o sep \o join(sep, Tail(words))

RECURSIVE rstrip(_)
\* str.rstrip(): s without its trailing whitespace.
rstrip(s) ==
    IF s = <<>> THEN <<>>
    ELSE IF s[Len(s)] \in Whitespace THEN rstrip(SubSeq(s, 1, Len(s) - 1))
         ELSE s

RECURSIVE LinesFrom(_, _, _)
LinesFrom(s, i, cur) ==
    IF i > Len(s)
    THEN (IF cur = <<>> THEN <<>> ELSE <<cur>>)
    ELSE IF s[i] = NL
         THEN <<cur>> \o LinesFrom(s, i + 1, <<>>)
         ELSE LinesFrom(s, i + 1, Append(cur, s[i]))

\* str.splitlines(): the lines of s; a final line terminator opens no new line.
splitlines(s) == LinesFrom(s, 1, <<>>)

RECURSIVE FindSep(_, _)
\* Index of the first ": " in s at or after i, 0 when there is none.
FindSep(s, i) ==
    IF i + 1 > Len(s) THEN 0
    ELSE IF s[i] = ":" /\ s[i + 1] = " " THEN i
         ELSE FindSep(s, i + 1)

\* A split that never finds the separator.
splitColonNever(s) == <<s>>

\* str.split(": ", 1)
splitColon(s) ==
    LET k == FindSep(s, 1)
    IN  IF k = 0 THEN <<s>>
        ELSE <<SubSeq(s, 1, k - 1), SubSeq(s, k + 2, Len(s))>>

\* ----------------------------------------------------------- Python values

PyNone == [k |-> "none", s |-> <<>>, b |-> FALSE, n |-> 0]
PyStr(x) == [k |-> "str", s |-> x, b |-> FALSE, n |-> 0]
PyBool(x) == [k |-> "bool", s |-> <<>>, b |-> x, n |-> 0]
PyInt(x) == [k |-> "int", s |-> <<>>, b |-> FALSE, n |-> x]

\* Python truth value: `not v` is ~Truthy(v).
Truthy(v) ==
    CASE v.k = "none" -> FALSE
      [] v.k = "str" -> v.s # <<>>
      [] v.k = "bool" -> v.b
      [] OTHER -> v.n # 0

RECURSIVE IntToStr(_)
IntToStr(n) ==
    IF n < 10 THEN <<Digits[n + 1]>>
    ELSE IntToStr(n \div 10) \o <<Digits[(n % 10) + 1]>>

\* What "{}".format(v) writes for v.
Fmt(v) ==
    CASE v.k = "none" -> <<"None">>
      [] v.k = "str" -> v.s
      [] v.k = "bool" -> (IF v.b THEN <<"True">> ELSE <<"False">>)
      [] OTHER -> IntToStr(v.n)

DigitValue(c) == CHOOSE d \in 0..9 : Digits[d + 1] = c

RECURSIVE DigitsToInt(_)
DigitsToInt(s) ==
    IF s = <<>> THEN 0
    ELSE 10 * DigitsToInt(SubSeq(s, 1, Len(s) - 1)) + DigitValue(s[Len(s)])

IsDigit(c) == \E d \in 1..10 : Digits[d] = c

\* int(v): an int is itself; a str is stripped of surrounding whitespace and
\* must then be a non-empty run of decimal digits, else ValueError.
IntOf(v) ==
    IF v.k = "int" THEN [ok |-> TRUE, n |-> v.n]
    ELSE LET w == split(v.s)
         IN  IF v.k = "str" /\ Len(w) = 1 /\ \A i \in 1..Len(w[1]) : IsDigit(w[1][i])
             THEN [ok |-> TRUE, n |-> DigitsToInt(w[1])]
             ELSE [ok |-> FALSE, n |-> 0]

\* ------------------------------------------------- the host action queue

\* One queue entry [Action.<a>, ...]: text is the first string payload (a
\* prompt, an entry, a clipboard text, an error text), arg the second payload
\* (a prompt's default value, an entry's info), tok a prompt's continuation
\* token (its identifier), list a list payload (choices, a context menu).
Act(a, text, arg, tok, list) ==
    [a |-> a, text |-> text, arg |-> arg, tok |-> tok, list |-> list]

ask_input(text, dflt, tok) == Act("ask_input", text, dflt, tok, <<>>)
ask_input_multi_line(text, dflt, tok) == Act("ask_input_multi_line", text, dflt, tok, <<>>)
ask_choice(text, choices, tok) == Act("ask_choice", text, PyNone, tok, choices)
ask_question(text, tok) == Act("ask_question", text, PyNone, tok, <<>>)
set_selection == Act("set_selection", <<>>, PyNone, <<>>, <<>>)
critical_error(text) == Act("critical_error", text, PyNone, <<>>, <<>>)
copy_to_clipboard(text) == Act("copy_to_clipboard", text, PyNone, <<>>, <<>>)
close == Act("close", <<>>, PyNone, <<>>, <<>>)
add_entry(entry) == Act("add_entry", entry, PyNone, <<>>, <<>>)
set_entry_info(entry, info) == Act("set_entry_info", entry, PyStr(info), <<>>, <<>>)
set_entry_context(entry, menu) == Act("set_entry_context", entry, PyNone, <<>>, menu)
set_base_context(menu) == Act("set_base_context", <<>>, PyNone, <<>>, menu)
set_header == Act("set_header", <<>>, PyNone, <<>>, <<>>)
replace_command_list == Act("replace_command_list", <<>>, PyNone, <<>>, <<>>)
replace_entry_list == Act("replace_entry_list", <<>>, PyNone, <<>>, <<>>)

AskActions == {"ask_input", "ask_input_multi_line", "ask_choice", "ask_question"}

\* ----------------------------------------------- the run of one handler

\* The state a handler works on and leaves behind: the actions it has put on
\* the queue (acts), the backend calls it has made (calls), the operations it
\* has invoked with their parameters (inv), the password store's files
\* (store: entry name -> [content, atime, mtime]; entry e is the file
\* <root>/<e>.gpg), self.passwordEntries (cache), and the exception that
\* ended it (err, "" when it returned).
EmptyDict == [x \in {} |-> <<>>]

Begin(store, cache) ==
    [acts |-> <<>>, calls |-> <<>>, inv |-> <<>>, store |-> store,
     cache |-> cache, err |-> ""]

\* self.q.put(act)
put(X, act) == [X EXCEPT !.acts = Append(@, act)]

Raise(X, e) == [X EXCEPT !.err = e]

BackendCall(fn, a1, a2, n) == [fn |-> fn, a1 |-> a1, a2 |-> a2, n |-> n]

called(X, fn, a1, a2, n) == [X EXCEPT !.calls = Append(@, BackendCall(fn, a1, a2, n))]

invoked(X, op, params) == [X EXCEPT !.inv = Append(@, [op |-> op, params |-> params])]

DictSet(d, key, v) == [x \in DOMAIN d \cup {key} |-> IF x = key THEN v ELSE d[x]]

DictDel(d, key) == [x \in DOMAIN d \ {key} |-> d[x]]

\* A store file <root>/<name>.gpg: its decrypted content and its timestamps.
File(content, atime, mtime) == [content |-> content, atime |-> atime, mtime |-> mtime]

\* ------------------------------------------------ the backend collaborators

\* password_store.get_decrypted_password(name): the entry's content, or None
\* when there is no such file or gpg fails.  Returns the run and the value.
get_decrypted_password(X, env, name) ==
    LET e == Fmt(name)
    IN  [X |-> called(X, "get_decrypted_password", e, <<>>, 0),
         val |-> IF e \in DOMAIN X.store /\ env.gpgOk
                 THEN PyStr(X.store[e].content) ELSE PyNone]

\* password_store.insert_password(name, content): writes <root>/<name>.gpg.
insert_password(X, env, name, content) ==
    LET e == Fmt(name)
    IN  [called(X, "insert_password", e, content, 0)
            EXCEPT !.store = DictSet(@, e, File(content, env.now, env.now))]

RECURSIVE Repeat(_, _)
Repeat(c, n) == IF n <= 0 THEN <<>> ELSE <<c>> \o Repeat(c, n - 1)

\* password_store.generate_password(name, length=n): a random password of n
\* characters (none for n <= 0).  Returns the run and the password.
generate_password(X, env, name, n) ==
    [X |-> called(X, "generate_password", Fmt(name), <<>>, n),
     val |-> PyStr(Repeat(env.pwChar, n))]

\* password_store.init(gpg_id, self._get_data_location): the second argument
\* is the bound method, not the path it returns; whether the library then
\* returns or raises TypeError is the environment's (initOk).
store_init(X, env, gpg_id) ==
    LET Y == called(X, "init", Fmt(gpg_id), <<"<bound method Module._get_data_location>">>, 0)
    IN  IF env.initOk THEN Y ELSE Raise(Y, "TypeError")

\* A copy that never finds source and destination to be one file.
SameFileNever(store, src, dst) == FALSE

\* shutil.copyfile's test that source and destination are one existing file.
SameFile(store, src, dst) == src \in DOMAIN store /\ src = dst

\* shutil.copyfile(<root>/<name>.gpg, <root>/<copy_name>.gpg)
copyfile(X, env, name, copy_name) ==
    LET src == Fmt(name)
        dst == Fmt(copy_name)
        Y == called(X, "copyfile", src, dst, 0)
    IN  IF SameFile(X.store, src, dst) THEN Raise(Y, "SameFileError")
        ELSE IF src \notin DOMAIN X.store THEN Raise(Y, "FileNotFoundError")
        ELSE [Y EXCEPT !.store = DictSet(@, dst, File(X.store[src].content, env.now, env.now))]

\* os.remove(<root>/<name>.gpg)
os_remove(X, name) ==
    LET e == Fmt(name)
        Y == called(X, "remove", e, <<>>, 0)
    IN  IF e \notin DOMAIN X.store THEN Raise(Y, "FileNotFoundError")
        ELSE [Y EXCEPT !.store = DictDel(@, e)]

\* os.rename(<root>/<name>.gpg, <root>/<new_name>.gpg)
os_rename(X, name, new_name) ==
    LET src == Fmt(name)
        dst == Fmt(new_name)
        Y == called(X, "rename", src, dst, 0)
    IN  IF src \notin DOMAIN X.store THEN Raise(Y, "FileNotFoundError")
        ELSE [Y EXCEPT !.store = DictSet(DictDel(@, src), dst, X.store[src])]

\* urllib's quote / unquote of the whitespace a secret may hold.
UrlQuote(s) ==
    [i \in 1..Len(s) |-> IF s[i] = " " THEN "%20" ELSE IF s[i] = NL THEN "%0A" ELSE s[i]]

UrlUnquote(s) ==
    [i \in 1..Len(s) |-> IF s[i] = "%20" THEN " " ELSE IF s[i] = "%0A" THEN NL ELSE s[i]]

\* pyotp.TOTP(secret).provisioning_uri() / pyotp.HOTP(secret).provisioning_uri()
provisioning_uri(kind, secret) ==
    <<"otpauth://", kind, "/Secret?secret=">> \o UrlQuote(secret)
        \o (IF kind = "hotp" THEN <<"&counter=", "0">> ELSE <<>>)

\* pyotp.parse_uri(line): the generator the URI describes; ok is FALSE where
\* the library raises ValueError.
parse_uri(line) ==
    LET n == Len(line)
        hotp == n >= 6 /\ line[n - 1] = "&counter=" /\ IsDigit(line[n])
        last == IF hotp THEN n - 2 ELSE n
        bad == [ok |-> FALSE, kind |-> "", secret |-> <<>>, counter |-> 0]
    IN  IF n >= 4 /\ line[1] = "otpauth://" /\ line[2] \in {"totp", "hotp"}
           /\ line[3] = "/Secret?secret=" /\ last >= 4
           /\ (line[2] = "hotp" <=> hotp)
           /\ \A i \in 4..last : line[i] \notin Whitespace \cup {"&counter="}
        THEN [ok |-> TRUE, kind |-> line[2],
              secret |-> UrlUnquote(SubSeq(line, 4, last)),
              counter |-> IF hotp THEN DigitValue(line[n]) ELSE 0]
        ELSE bad

\* pyotp.TOTP.now(): the code of the current time step.
totp_now(otp, env) == <<"code#">> \o UrlQuote(otp.secret) \o <<"@">> \o IntToStr(env.tstep)

\* ------------------------------------------- the prompt-continuation operations

\* "<op> {}".format(a) and "<op> {} {}".format(a, b)
Token1(op, a) == <<op, " ">> \o Fmt(a)
Token2(op, a, b) == <<op, " ">> \o Fmt(a) \o <<" ">> \o Fmt(b)

_add_otp(X0, env, name, otp_type, secret) ==
    LET X == invoked(X0, "add_otp", <<name, otp_type, secret>>)
    IN  IF ~Truthy(name)
        THEN put(X, ask_input(<<"Add OTP to which password?">>, PyStr(<<>>), <<"add_otp">>))
        ELSE IF ~Truthy(otp_type)
        THEN put(X, ask_choice(<<"Use which OTP type?">>, <<(<<"TOTP">>), (<<"HOTP">>)>>,
                               Token1("add_otp", name)))
        ELSE IF ~Truthy(secret)
        THEN put(X, ask_input(<<"What is the OTP secret?">>, PyStr(<<>>),
                              Token2("add_otp", name, otp_type)))
        ELSE IF otp_type \notin {PyStr(<<"TOTP">>), PyStr(<<"HOTP">>)}
        THEN X
        ELSE LET otp_uri == provisioning_uri(IF otp_type = PyStr(<<"TOTP">>) THEN "totp" ELSE "hotp",
                                             Fmt(secret))
                 r == get_decrypted_password(X, env, name)
             IN  insert_password(r.X, env, name, Fmt(r.val) \o <<NL>> \o otp_uri)

_copy(X0, env, name, copy_name) ==
    LET X == invoked(X0, "copy", <<name, copy_name>>)
        prompt == ask_input(<<"What should the copy of ">> \o Fmt(name) \o <<" be named?">>,
                            name, Token1("copy", name))
    IN  IF ~Truthy(name)
        THEN put(X, ask_input(<<"Copy which password?">>, PyStr(<<>>), <<"copy">>))
        ELSE IF ~Truthy(copy_name)
        THEN put(X, prompt)
        ELSE LET Y == copyfile(X, env, name, copy_name)
             IN  IF Y.err = "SameFileError" THEN put([Y EXCEPT !.err = ""], prompt)
                 ELSE IF Y.err # "" THEN Y
                 ELSE put(Y, set_selection)

_edit(X0, env, name, value) ==
    LET X == invoked(X0, "edit", <<name, value>>)
    IN  IF ~Truthy(name)
        THEN put(X, ask_input(<<"What is the name of the password to edit?">>, PyStr(<<>>), <<"edit">>))
        ELSE IF ~Truthy(value)
        THEN LET r == get_decrypted_password(X, env, name)
             IN  put(r.X, ask_input_multi_line(
                        <<"What should the value of ">> \o Fmt(name) \o <<" be?">>,
                        r.val, Token1("edit", name)))
        ELSE put(insert_password(X, env, name, Fmt(value)), set_selection)

_insert(X0, env, name, value) ==
    LET X == invoked(X0, "insert", <<name, value>>)
    IN  IF ~Truthy(name)
        THEN put(X, ask_input(<<"What is the name of the password?">>, PyStr(<<>>), <<"insert">>))
        ELSE IF ~Truthy(value)
        THEN put(X, ask_input_multi_line(
                        <<"What should the value of ">> \o Fmt(name) \o <<" be?">>,
                        PyStr(<<>>), Token1("insert", name)))
        ELSE put(insert_password(X, env, name, Fmt(value)), set_selection)

_generate(X0, env, name, length) ==
    LET X == invoked(X0, "generate", <<name, length>>)
    IN  IF ~Truthy(name)
        THEN put(X, ask_input(<<"Generate a random password under which name?">>, PyStr(<<>>),
                              <<"generate">>))
        ELSE IF ~Truthy(length)
        THEN put(X, ask_input(<<"How many characters long should the password be?">>,
                              PyStr(<<"1", "5">>), Token1("generate", name)))
        ELSE LET n == IntOf(length)
             IN  IF ~n.ok THEN Raise(X, "ValueError")
                 ELSE LET r == generate_password(X, env, name, n.n)
                      IN  _insert(r.X, env, name, r.val)

_init(X0, env, gpg_id) ==
    LET X == invoked(X0, "init", <<gpg_id>>)
    IN  IF ~Truthy(gpg_id)
        THEN put(X, ask_input(<<"Please provide a GPG ID to initialize this directory with.">>,
                              PyStr(<<>>), <<"init">>))
        ELSE LET Y == store_init(X, env, gpg_id)
             IN  IF Y.err # "" THEN Y ELSE put(Y, set_selection)

_remove(X0, env, name, confirmed) ==
    LET X == invoked(X0, "remove", <<name, confirmed>>)
    IN  IF ~Truthy(name)
        THEN put(X, ask_input(<<"Remove which password?">>, PyStr(<<>>), <<"remove">>))
        ELSE IF confirmed = PyNone
        THEN put(X, ask_question(<<"Are you sure you want to remove ">> \o Fmt(name) \o <<"?">>,
                                 Token1("remove", name)))
        ELSE IF ~Truthy(confirmed)
        THEN X
        ELSE LET Y == os_remove(X, name)
             IN  IF Y.err # "" THEN Y ELSE put(Y, set_selection)

_rename(X0, env, name, new_name) ==
    LET X == invoked(X0, "rename", <<name, new_name>>)
    IN  IF ~Truthy(name)
        THEN put(X, ask_input(<<"Rename which password?">>, PyStr(<<>>), <<"rename">>))
        ELSE IF ~Truthy(new_name)
        THEN put(X, ask_input(<<"What should the new name of ">> \o Fmt(name) \o <<" be?">>,
                              name, Token1("rename", name)))
        ELSE LET Y == os_rename(X, name, new_name)
             IN  IF Y.err # "" THEN Y ELSE put(Y, set_selection)

\* ------------------------------------------------------- process_response

DefaultLength == 15

\* A controller that takes no response for a cancellation.
IsCancelNever(response) == FALSE

\* `response is None`: the user cancelled the prompt.
IsCancel(response) == response = PyNone

process_response(X, env, response, identifier) ==
    IF IsCancel(response) THEN X
    ELSE
    LET data == split(identifier)
        n == Len(data)
        given == response # PyNone
        rest == PyStr(join(<<" ">>, SubSeq(data, 2, n)))
        most == PyStr(join(<<" ">>, SubSeq(data, 2, n - 1)))
        one == n = 1
    IN  IF n = 0 THEN Raise(X, "IndexError")
        ELSE IF data[1] = <<"add_otp">> THEN
            IF one THEN (IF given THEN _add_otp(X, env, response, PyNone, PyNone)
                         ELSE _add_otp(X, env, PyNone, PyNone, PyNone))
            ELSE IF given
                 THEN (IF data[n] \in {<<"TOTP">>, <<"HOTP">>}
                       THEN _add_otp(X, env, most, PyStr(data[n]), response)
                       ELSE _add_otp(X, env, rest, response, PyNone))
                 ELSE (IF data[n] \in {<<"TOTP">>, <<"HOTP">>}
                       THEN Raise(X, "TypeError")
                       ELSE _add_otp(X, env, rest, PyNone, PyNone))
        ELSE IF data[1] = <<"copy">> THEN
            IF one THEN (IF given THEN _copy(X, env, response, PyNone)
                         ELSE _copy(X, env, PyNone, PyNone))
            ELSE (IF given THEN _copy(X, env, rest, response)
                  ELSE _copy(X, env, rest, PyNone))
        ELSE IF data[1] = <<"edit">> THEN
            IF one THEN (IF given THEN _edit(X, env, response, PyNone)
                         ELSE _edit(X, env, PyNone, PyNone))
            ELSE (IF given THEN _edit(X, env, rest, response)
                  ELSE _edit(X, env, rest, PyNone))
        ELSE IF data[1] = <<"generate">> THEN
            IF one THEN (IF given THEN _generate(X, env, response, PyNone)
                         ELSE _generate(X, env, PyNone, PyNone))
            ELSE (IF given
                  THEN _generate(X, env, rest,
                                 IF Truthy(response) THEN response ELSE PyInt(DefaultLength))
                  ELSE _generate(X, env, rest, PyNone))
        ELSE IF data[1] = <<"init">> THEN
            (IF given THEN _init(X, env, response) ELSE _init(X, env, PyNone))
        ELSE IF data[1] = <<"insert">> THEN
            IF one THEN (IF given THEN _insert(X, env, response, PyNone)
                         ELSE _insert(X, env, PyNone, PyNone))
            ELSE (IF given THEN _insert(X, env, rest, response)
                  ELSE _insert(X, env, rest, PyNone))
        ELSE IF data[1] = <<"remove">> THEN
            IF one THEN (IF given THEN _remove(X, env, response, PyNone)
                         ELSE _remove(X, env, PyNone, PyNone))
            ELSE (IF given THEN _remove(X, env, rest, response)
                  ELSE _remove(X, env, rest, PyNone))
        ELSE IF data[1] = <<"rename">> THEN
            IF one THEN (IF given THEN _rename(X, env, response, PyNone)
                         ELSE _rename(X, env, PyNone, PyNone))
            ELSE (IF given THEN _rename(X, env, rest, response)
                  ELSE _rename(X, env, rest, PyNone))
        ELSE put(X, critical_error(<<"Unknown request received: ">> \o join(<<" ">>, data)))

\* ------------------------------------------------------------ entry listing

\* A version comparison that finds no version older than another.
VersionLessNever(a, b) == FALSE

\* List comparison a < b of two API versions [major, minor, patch].
VersionLess(a, b) ==
    \/ a[1] < b[1]
    \/ a[1] = b[1] /\ a[2] < b[2]
    \/ a[1] = b[1] /\ a[2] = b[2] /\ a[3] < b[3]

\* html.escape(s)
HtmlEscape(s) ==
    [i \in 1..Len(s) |->
        CASE s[i] = "&" -> "&amp;"
          [] s[i] = "<" -> "&lt;"
          [] s[i] = ">" -> "&gt;"
          [] s[i] = "\"" -> "&quot;"
          [] s[i] = "'" -> "&#x27;"
          [] OTHER -> s[i]]

RECURSIVE SortedByAtime(_, _)
\* sorted(names, key=atime, reverse=True)
SortedByAtime(store, names) ==
    IF names = {} THEN <<>>
    ELSE LET m == CHOOSE x \in names : \A y \in names : store[y].atime <= store[x].atime
         IN  <<m>> \o SortedByAtime(store, names \ {m})

BaseMenu == <<(<<"Open">>), (<<"Edit">>), (<<"Copy">>), (<<"Rename">>)>>

\* A context menu that offers Remove and Add OTP together.
EntryMenuBoth(api) == Append(Append(BaseMenu, <<"Remove">>), <<"Add", " ", "OTP">>)

\* The context menu of an entry under API version api.
EntryMenu(api) ==
    IF VersionLess(api, <<0, 12, 0>>)
    THEN Append(BaseMenu, <<"Remove">>)
    ELSE Append(BaseMenu, <<"Add", " ", "OTP">>)

EntryInfo(entry, f) ==
    <<"<b>">> \o HtmlEscape(entry) \o <<"</b><br/><br/><b>Last opened</b><br/>">>
        \o IntToStr(f.atime) \o <<"<br/><br/><b>Last modified</b><br/>">> \o IntToStr(f.mtime)

RECURSIVE PutEntries(_, _, _)
PutEntries(X, env, entries) ==
    IF entries = <<>> THEN X
    ELSE LET e == Head(entries)
         IN  PutEntries(
                put(put(put(X, add_entry(e)),
                        set_entry_info(e, EntryInfo(e, X.store[e]))),
                    set_entry_context(e, EntryMenu(env.api))),
                env, Tail(entries))

_get_entries(X, env) == PutEntries(X, env, SortedByAtime(X.store, DOMAIN X.store))

\* ----------------------------------------------------------- selection_made

\* One frame of the host's selection path.
Frame(type, value, context_option) ==
    [type |-> type, value |-> value, context_option |-> context_option]

FrameRepr(f) ==
    <<"{type: ", f.type, ", value: ">> \o f.value \o <<", context_option: ">>
        \o Fmt(f.context_option) \o <<"}">>

RECURSIVE SelectionRepr(_)
SelectionRepr(sel) ==
    IF sel = <<>> THEN <<>> ELSE FrameRepr(Head(sel)) \o SelectionRepr(Tail(sel))

Unexpected(X, selection) ==
    put(X, critical_error(<<"Unexpected selection_made value: ">> \o SelectionRepr(selection)))

Placeholder == <<"********">>

\* The OTP loop's verdict on one line: the line to show, and whether
\* evaluating it raised (HOTP.generate_otp() is called without its counter).
OtpLine(line, env) ==
    LET otp == parse_uri(line)
    IN  IF ~otp.ok THEN [line |-> line, err |-> ""]
        ELSE IF otp.kind = "totp"
        THEN [line |-> <<"OTP", ":", " ">> \o totp_now(otp, env), err |-> ""]
        ELSE [line |-> line, err |-> "TypeError"]

\* A controller that always lists the fields.
OnlyPasswordNever(result_lines) == FALSE

\* "only a password and no other fields"
OnlyPassword(result_lines) == Len(result_lines) = 1

\* `len(self.passwordEntries) == 0`: the line being listed is taken for the first.
IsFirstField(cache) == DOMAIN cache = {}

RECURSIVE ListFields(_, _)
ListFields(X, lines) ==
    IF lines = <<>> THEN X
    ELSE LET line == Head(lines)
         IN  IF IsFirstField(X.cache)
             THEN ListFields(put([X EXCEPT !.cache = DictSet(@, Placeholder, line)],
                                 add_entry(Placeholder)), Tail(lines))
             ELSE ListFields(put([X EXCEPT !.cache = DictSet(@, line, line)],
                                 add_entry(line)), Tail(lines))

\* selection_made, depth 1, no context option: decrypt and show the entry.
OpenEntry(X, env, value) ==
    LET r == get_decrypted_password(X, env, PyStr(value))
    IN  IF r.val = PyNone THEN put(r.X, set_selection)
        ELSE
        LET X1 == put(put(r.X, replace_entry_list), replace_command_list)
            raw == splitlines(rstrip(r.val.s))
            otp == [i \in 1..Len(raw) |-> OtpLine(raw[i], env)]
            result_lines == [i \in 1..Len(raw) |-> otp[i].line]
        IN  IF \E i \in 1..Len(raw) : otp[i].err # ""
            THEN Raise(X1, "TypeError")
            ELSE IF OnlyPassword(result_lines)
            THEN put(put(X1, copy_to_clipboard(result_lines[1])), close)
            ELSE ListFields(X1, result_lines)

\* selection_made, depth 2: copy the selected field.
CopyField(X, value) ==
    IF value \notin DOMAIN X.cache THEN Raise(X, "KeyError")
    ELSE LET copyStringParts == splitColon(X.cache[value])
             copyString == IF value = Placeholder THEN X.cache[Placeholder]
                           ELSE IF Len(copyStringParts) > 1 THEN copyStringParts[2]
                           ELSE copyStringParts[1]
         IN  put([put(X, copy_to_clipboard(copyString)) EXCEPT !.cache = EmptyDict], close)

selection_made(X, env, selection) ==
    LET n == Len(selection)
        first == selection[1]
        last == selection[n]
        opt == first.context_option
        name == PyStr(first.value)
        S == put(X, set_selection)
    IN  IF n = 0
        THEN _get_entries(
                put(put(put([X EXCEPT !.cache = EmptyDict], set_header),
                        replace_command_list), replace_entry_list), env)
        ELSE IF last.type = "none"
        THEN (IF last.context_option = PyStr(<<"Create">>)
              THEN _insert(S, env, PyNone, PyNone)
              ELSE IF last.context_option = PyStr(<<"Generate">>)
              THEN _generate(S, env, PyNone, PyNone)
              ELSE Unexpected(X, selection))
        ELSE IF n = 1
        THEN (IF first.type = "entry"
              THEN (IF opt = PyStr(<<"Edit">>) THEN _edit(S, env, name, PyNone)
                    ELSE IF opt = PyStr(<<"Copy">>) THEN _copy(S, env, name, PyNone)
                    ELSE IF opt = PyStr(<<"Rename">>) THEN _rename(S, env, name, PyNone)
                    ELSE IF opt = PyStr(<<"Remove">>) THEN _remove(S, env, name, PyNone)
                    ELSE IF opt = PyStr(<<"Add", " ", "OTP">>)
                    THEN _add_otp(S, env, name, PyNone, PyNone)
                    ELSE OpenEntry(X, env, first.value))
              ELSE Unexpected(X, selection))
        ELSE IF n = 2
        THEN CopyField(X, last.value)
        ELSE Unexpected(X, selection)

\* --------------------------------------------------------------------- init

MinVersion == <<0, 11, 1>>

RECURSIVE DotJoin(_)
\* ".".join([str(i) for i in version])
DotJoin(v) ==
    IF Len(v) = 1 THEN IntToStr(v[1]) ELSE IntToStr(v[1]) \o <<".">> \o DotJoin(Tail(v))

\* A marker path that is the empty string.
GpgIdPathEmpty == <<>>

\* os.path.join(self.data_location, ".gpg-id")
GpgIdPath == <<"<root>/", ".gpg-id">>

init(X, env) ==
    IF VersionLess(env.api, MinVersion)
    THEN put(X, critical_error(
            <<"This module requires at least API version 0.11.1, you are using ">>
                \o DotJoin(env.api) \o <<". Please update Pext.">>))
    ELSE LET Y == _get_entries(
                    put([X EXCEPT !.cache = EmptyDict],
                        set_base_context(<<(<<"Create">>), (<<"Generate">>)>>)), env)
         IN  IF ~Truthy(PyStr(GpgIdPath)) THEN _init(Y, env, PyNone) ELSE Y

\* ------------------------------------------------------------ the state machine

VARIABLES
    phase,      \* "new" before init, then "ready", or "failed" (init gave up)
    api,        \* settings['_api_version']
    store,      \* the files of the password store
    cache,      \* self.passwordEntries
    ev,         \* the host event handled last
    acts,       \* what its handler put on the queue
    calls,      \* the backend calls its handler made
    inv,        \* the operations its handler invoked, with their parameters
    err,        \* the exception that ended its handler ("" if it returned)
    pending,    \* the prompt the host is showing (NoAct if none)
    flow,       \* the operation being asked for and the answers given so far
    prevStore,  \* the store before the event handled last
    prevCache,  \* the session cache before the event handled last
    retry,      \* whether the open prompt was put by copy's same-file path
    trusted,    \* whether the host has so far only selected what was offered and
                \* answered only prompts the controller issued
    steps       \* host events handled since init

vars == <<phase, api, store, cache, ev, acts, calls, inv, err, pending, flow,
          prevStore, prevCache, retry, trusted, steps>>

NoAct == Act("", <<>>, PyNone, <<>>, <<>>)
NoFlow == [op |-> "", args |-> <<>>]
NoEnv == [gpgOk |-> TRUE, pwChar |-> "p", tstep |-> 0, initOk |-> TRUE, api |-> <<0, 0, 0>>, now |-> 0]
Event(kind, op, selection, response, identifier, prompt, env) ==
    [kind |-> kind, op |-> op, selection |-> selection, response |-> response,
     identifier |-> identifier, prompt |-> prompt, env |-> env, retry |-> FALSE]

Operations == {"add_otp", "copy", "edit", "generate", "init", "insert", "remove", "rename"}

Arity(op) == IF op = "add_otp" THEN 3 ELSE IF op = "init" THEN 1 ELSE 2

\* The operation op called with the parameters args, the rest left at None.
RunOp(op, X, env, args) ==
    LET a(i) == IF i <= Len(args) THEN args[i] ELSE PyNone
    IN  CASE op = "add_otp" -> _add_otp(X, env, a(1), a(2), a(3))
          [] op = "copy" -> _copy(X, env, a(1), a(2))
          [] op = "edit" -> _edit(X, env, a(1), a(2))
          [] op = "generate" -> _generate(X, env, a(1), a(2))
          [] op = "init" -> _init(X, env, a(1))
          [] op = "insert" -> _insert(X, env, a(1), a(2))
          [] op = "remove" -> _remove(X, env, a(1), a(2))
          [] OTHER -> _rename(X, env, a(1), a(2))

\* The stores a run may start from.  Entry names with a repeated blank and an
\* entry named like an OTP type are files `pass` itself can create.
TotpLine == provisioning_uri("totp", <<"s">>)
HotpLine == provisioning_uri("hotp", <<"s">>)

StoreA ==
    (<<"a">> :> File(<<"pw", NL>>, 3, 1))
    @@ (<<"a", " ", "b">> :> File(<<"pw", NL, "url", ":", " ", "x", NL>> \o TotpLine \o <<NL>>, 2, 2))
    @@ (<<"a", " ", " ", "b">> :> File(<<"pw2", NL, "********", NL>>, 1, 1))

StoreB ==
    (<<"TOTP">> :> File(<<"pw", " ", NL>>, 1, 1))
    @@ (<<"o">> :> File(TotpLine \o <<NL>>, 2, 2))
    @@ (<<"h">> :> File(<<"pw", NL>> \o HotpLine \o <<NL>>, 3, 2))

\* An entry whose decrypted content is empty.
StoreC ==
    (<<"e">> :> File(<<>>, 1, 1))

InitialStores == {StoreA, StoreB, StoreC}

ApiVersions == {<<0, 10, 2>>, <<0, 11, 0>>, <<0, 11, 1>>, <<0, 12, 0>>}

\* What the user may type into an input prompt.
Answers ==
    {<<>>, <<"a">>, <<"c">>, <<"a", " ", "b">>, <<"a", " ", " ", "b">>, <<" ">>,
     <<"TOTP">>, <<"a", " ", "HOTP">>, <<"0">>, <<"2">>}

\* The answers the host can return for a prompt: None when the user cancels,
\* else a string, one of the choices, or yes/no, by the kind of prompt.
Responses(prompt) ==
    {PyNone} \cup
    (CASE prompt.a = "ask_question" -> {PyBool(TRUE), PyBool(FALSE)}
       [] prompt.a = "ask_choice" -> {PyStr(prompt.list[i]) : i \in 1..Len(prompt.list)}
       [] OTHER -> {PyStr(x) : x \in Answers})

\* The environment's part in one handler run: whether gpg decrypts (gpgOk),
\* the character the password generator draws (pwChar), the OTP time step
\* (tstep), whether the store initialisation returns (initOk), the host's API
\* version and the clock (now). A flag says whether the run reads that part.
Envs(g, p, t, i) ==
    [gpgOk : IF g THEN BOOLEAN ELSE {TRUE},
     pwChar : IF p THEN {"p", "q"} ELSE {"p"},
     tstep : IF t THEN {0, 1} ELSE {0},
     initOk : IF i THEN BOOLEAN ELSE {TRUE},
     api : {api},
     now : {steps + 10}]

\* The last prompt among the actions a handler put, NoAct if it put none.
LastAsk(as) ==
    LET I == {i \in 1..Len(as) : as[i].a \in AskActions}
    IN  IF I = {} THEN NoAct ELSE as[CHOOSE i \in I : \A j \in I : j <= i]

Init ==
    /\ phase = "new"
    /\ api = <<0, 0, 0>>
    /\ store \in InitialStores
    /\ cache = EmptyDict
    /\ ev = Event("none", "", <<>>, PyNone, <<>>, NoAct, NoEnv)
    /\ acts = <<>>
    /\ calls = <<>>
    /\ inv = <<>>
    /\ err = ""
    /\ pending = NoAct
    /\ flow = NoFlow
    /\ prevStore = store
    /\ prevCache = EmptyDict
    /\ retry = FALSE
    /\ trusted = TRUE
    /\ steps = 0

\* Whether the run X ended with _copy asking again although it was given both
\* parameters (lines 210-212).
SameFileRetry(X) ==
    /\ X.inv # <<>>
    /\ LET c == X.inv[Len(X.inv)]
       IN  /\ c.op = "copy"
           /\ Truthy(c.params[1]) /\ Truthy(c.params[2])
           /\ LastAsk(X.acts) # NoAct

\* The handler's run X becomes the state.
Finish(X, e, f) ==
    /\ store' = X.store
    /\ cache' = X.cache
    /\ acts' = X.acts
    /\ calls' = X.calls
    /\ inv' = X.inv
    /\ err' = X.err
    /\ pending' = LastAsk(X.acts)
    /\ ev' = [e EXCEPT !.retry = retry]
    /\ retry' = SameFileRetry(X)
    /\ flow' = f
    /\ prevStore' = store
    /\ prevCache' = cache

\* The host loads the module: Module.init(settings, q).
ModuleInit ==
    /\ phase = "new"
    /\ \E v \in ApiVersions :
        LET env == [NoEnv EXCEPT !.api = v, !.now = 10]
            X == init(Begin(store, cache), env)
        IN  /\ api' = v
            /\ phase' = IF VersionLess(v, MinVersion) THEN "failed" ELSE "ready"
            /\ Finish(X, Event("init", "", <<>>, PyNone, <<>>, NoAct, env), NoFlow)
    /\ steps' = steps
    /\ UNCHANGED trusted

\* An operation is called with no parameter at all.
Invoke ==
    /\ phase = "ready" /\ steps < MaxSteps /\ pending = NoAct
    /\ \E op \in Operations :
        \E env \in Envs(FALSE, FALSE, FALSE, FALSE) :
            Finish(RunOp(op, Begin(store, cache), env, <<>>),
                   Event("invoke", op, <<>>, PyNone, <<>>, NoAct, env),
                   [op |-> op, args |-> <<>>])
    /\ steps' = steps + 1
    /\ trusted' = FALSE
    /\ UNCHANGED <<phase, api>>

\* The context options the host offers on an entry; None is a plain selection.
Offered == {PyNone} \cup {PyStr(EntryMenu(api)[i]) : i \in 2..Len(EntryMenu(api))}

\* The selections the host may report while no prompt is open.
Selections ==
    {<<>>}
    \cup {<<Frame("none", <<>>, PyStr(o))>> : o \in {<<"Create">>, <<"Generate">>, <<"Settings">>}}
    \cup {<<Frame("entry", e, o)>> : e \in DOMAIN store, o \in Offered \cup {PyStr(<<"Settings">>)}}
    \cup {<<Frame("command", <<"a">>, PyNone)>>}
    \cup {<<Frame("entry", <<"a">>, PyNone), Frame("entry", l, PyNone)>> :
            l \in DOMAIN cache \cup {Placeholder}}
    \cup {<<Frame("entry", <<"a">>, PyNone), Frame("entry", Placeholder, PyNone),
            Frame("entry", Placeholder, PyNone)>>}

\* Whether the host has put the selection on offer: the main list, an option
\* of the base context menu, an entry with an option of its context menu, or
\* a label of the field list.
IsOffered(sel) ==
    \/ sel = <<>>
    \/ /\ Len(sel) = 1 /\ sel[1].type = "none"
       /\ sel[1].context_option \in {PyStr(<<"Create">>), PyStr(<<"Generate">>)}
    \/ /\ Len(sel) = 1 /\ sel[1].type = "entry"
       /\ sel[1].value \in DOMAIN store /\ sel[1].context_option \in Offered
    \/ Len(sel) = 2 /\ sel[2].value \in DOMAIN cache

\* The operation a selection starts, with the parameter it supplies.
FlowOf(sel) ==
    LET o == sel[1].context_option
    IN  IF Len(sel) # 1 THEN NoFlow
        ELSE IF sel[1].type = "none"
        THEN (IF o = PyStr(<<"Create">>) THEN [op |-> "insert", args |-> <<>>]
              ELSE IF o = PyStr(<<"Generate">>) THEN [op |-> "generate", args |-> <<>>]
              ELSE NoFlow)
        ELSE IF sel[1].type # "entry" THEN NoFlow
        ELSE LET name == <<PyStr(sel[1].value)>>
             IN  CASE o = PyStr(<<"Edit">>) -> [op |-> "edit", args |-> name]
                   [] o = PyStr(<<"Copy">>) -> [op |-> "copy", args |-> name]
                   [] o = PyStr(<<"Rename">>) -> [op |-> "rename", args |-> name]
                   [] o = PyStr(<<"Remove">>) -> [op |-> "remove", args |-> name]
                   [] o = PyStr(<<"Add", " ", "OTP">>) -> [op |-> "add_otp", args |-> name]
                   [] OTHER -> NoFlow

\* The host reports a selection: Module.selection_made(selection).
Select ==
    /\ phase = "ready" /\ steps < MaxSteps /\ pending = NoAct
    /\ \E sel \in Selections :
        LET opens == Len(sel) = 1 /\ sel[1].type = "entry"
            o == sel[1].context_option
            shows == opens /\ FlowOf(sel) = NoFlow
        IN  \E env \in Envs(shows \/ (opens /\ o = PyStr(<<"Edit">>)),
                            FALSE, shows, FALSE) :
                /\ Finish(selection_made(Begin(store, cache), env, sel),
                          Event("selection", "", sel, PyNone, <<>>, NoAct, env),
                          FlowOf(sel))
                /\ trusted' = (trusted /\ IsOffered(sel))
    /\ steps' = steps + 1
    /\ UNCHANGED <<phase, api>>

\* The flow after the answer r.
FlowAfter(r) ==
    IF r = PyNone \/ flow.op = "" \/ Len(flow.args) >= Arity(flow.op) THEN NoFlow
    ELSE IF Truthy(r) \/ r.k = "bool" THEN [flow EXCEPT !.args = Append(@, r)]
    ELSE flow

\* The host returns the answer to the open prompt:
\* Module.process_response(response, identifier).
Respond ==
    /\ phase = "ready" /\ steps < MaxSteps /\ pending # NoAct
    /\ \E r \in Responses(pending) :
        LET w == split(pending.tok)
            op == IF w = <<>> THEN <<>> ELSE w[1]
        IN  \E env \in Envs(op \in {<<"edit">>, <<"add_otp">>}, op = <<"generate">>,
                            FALSE, op = <<"init">>) :
                Finish(process_response(Begin(store, cache), env, r, pending.tok),
                       Event("response", "", <<>>, r, pending.tok, pending, env),
                       FlowAfter(r))
    /\ steps' = steps + 1
    /\ UNCHANGED <<phase, api, trusted>>

\* The tokens of a response that answers no prompt of the controller.
StrayTokens == {<<>>, <<"bogus", " ", "a">>}

\* The host returns an answer under a token the controller never issued:
\* Module.process_response(response, identifier).
Stray ==
    /\ phase = "ready" /\ steps < MaxSteps /\ pending = NoAct
    /\ \E tok \in StrayTokens :
        \E env \in Envs(FALSE, FALSE, FALSE, FALSE) :
            Finish(process_response(Begin(store, cache), env, PyStr(<<"a">>), tok),
                   Event("stray", "", <<>>, PyStr(<<"a">>), tok, NoAct, env),
                   NoFlow)
    /\ steps' = steps + 1
    /\ trusted' = FALSE
    /\ UNCHANGED <<phase, api>>

Next == ModuleInit \/ Invoke \/ Select \/ Respond \/ Stray

Spec == Init /\ [][Next]_vars

\* ------------------------------------------------------------------- claims

\* Vocabulary of the claims.

Count(as, P(_)) == Cardinality({i \in 1..Len(as) : P(as[i])})

IsAsk(x) == x.a \in AskActions
IsSetSelection(x) == x = set_selection
IsWrite(c) == c.fn \in {"insert_password", "copyfile", "rename", "remove", "init"}

IsResponse == ev.kind = "response"

\* The handler run the state records.
LastRun == Begin(prevStore, prevCache)

\* The name typed at an operation's name step, read back from the token
\* "<op> <name>" that step issued.
GivenName(tok) == SubSeq(tok, 3, Len(tok))

\* Whether parameter i of the invocation c is missing, as its operation tests it.
IsMissing(c, i) ==
    IF c.op = "remove" /\ i = 2 THEN c.params[i] = PyNone ELSE ~Truthy(c.params[i])

HasMissing(c) == \E i \in 1..Len(c.params) : IsMissing(c, i)

RECURSIVE KnownFrom(_, _)
\* The texts of the parameters of c that are known, from parameter i on.
KnownFrom(c, i) ==
    IF i > Len(c.params) THEN <<>>
    ELSE (IF IsMissing(c, i) THEN <<>> ELSE <<Fmt(c.params[i])>>) \o KnownFrom(c, i + 1)

\* "<operation> <already-known parameters, space joined>"
ExpectedToken(c) == join(<<" ">>, <<(<<c.op>>)>> \o KnownFrom(c, 1))

\* C1: answering the prompts of an operation one at a time, each with a
\* non-empty value, ends in the same backend calls, with the same arguments,
\* as calling the operation once with all those values.
C1_StepwiseEqualsDirect ==
    (IsResponse /\ flow.op # "" /\ Len(flow.args) = Arity(flow.op))
        => calls = RunOp(flow.op, LastRun, ev.env, flow.args).calls

GenerateLengthPrompt == <<"How many characters long should the password be?">>

\* C2: a null response to any prompt other than generate's length prompt makes
\* no backend call, puts nothing on the queue and leaves the session cache (and
\* the store) as they were.
C2_CancelDoesNothing ==
    (IsResponse /\ ev.response = PyNone /\ ev.prompt.text # GenerateLengthPrompt)
        => /\ acts = <<>>
           /\ calls = <<>>
           /\ cache = prevCache
           /\ store = prevStore
           /\ err = ""

\* A prompt of a second step was cancelled, and nothing happened.
C2_Witness ==
    /\ IsResponse /\ ev.response = PyNone
    /\ ev.prompt.a = "ask_choice"
    /\ Len(split(ev.identifier)) > 1
    /\ acts = <<>> /\ calls = <<>> /\ pending = NoAct

\* C3: an operation invoked with a parameter missing puts exactly one ask,
\* writes nothing, and the ask's token is the operation name followed by the
\* known parameters, joined by single spaces.
C3_MissingParameterAsks ==
    \A i \in 1..Len(inv) :
        HasMissing(inv[i]) =>
            /\ Count(acts, IsAsk) = 1
            /\ Count(calls, IsWrite) = 0
            /\ LastAsk(acts).tok = ExpectedToken(inv[i])

\* The backend call an operation ends in.
FinalCall(op) ==
    CASE op \in {"insert", "edit", "add_otp"} -> "insert_password"
      [] op = "copy" -> "copyfile"
      [] op = "rename" -> "rename"
      [] op = "remove" -> "remove"
      [] op = "init" -> "init"
      [] OTHER -> "generate_password"

\* C4: an operation invoked with every parameter given (for remove: confirmed)
\* whose handler returns makes its backend call exactly once and then puts
\* exactly one set_selection and no ask; add_otp makes its write and puts no
\* set_selection.  Copy's same-file path is left out.
C4_CompletionCallsOnceThenClears ==
    \A i \in 1..Len(inv) :
        LET c == inv[i]
            named(k) == k.fn = FinalCall(c.op)
        IN  ((\A j \in 1..Len(c.params) : Truthy(c.params[j]))
             /\ err = "" /\ IsResponse
             /\ ~retry)
            => /\ Count(calls, named) = 1
               /\ Count(acts, IsAsk) = 0
               /\ Count(acts, IsSetSelection) = (IF c.op = "add_otp" THEN 0 ELSE 1)

\* The last invocation the handler made.
LastInv == inv[Len(inv)]

\* C5: a copy whose destination is the source file itself changes no file,
\* puts exactly the new-name prompt (token "copy <name>") and no
\* set_selection; answering that prompt with a different name then makes the
\* copy and clears the selection.
C5_SameFileCopyReprompts ==
    /\ (/\ inv # <<>> /\ LastInv.op = "copy"
        /\ Truthy(LastInv.params[1]) /\ Truthy(LastInv.params[2])
        /\ LastInv.params[1] = LastInv.params[2]
        /\ Fmt(LastInv.params[1]) \in DOMAIN prevStore)
       => LET name == LastInv.params[1]
          IN  /\ store = prevStore
              /\ acts = <<ask_input(<<"What should the copy of ">> \o Fmt(name) \o <<" be named?">>,
                                    name, <<"copy", " ">> \o Fmt(name))>>
              /\ acts = RunOp("copy", LastRun, ev.env, <<name>>).acts
              /\ err = ""
    /\ (IsResponse /\ ev.retry /\ Truthy(ev.response) /\ ev.response # ev.prompt.arg)
       => LET src == GivenName(ev.identifier)
              dst == Fmt(ev.response)
          IN  /\ src = Fmt(ev.prompt.arg)
              /\ src \in DOMAIN prevStore
              /\ DOMAIN store = DOMAIN prevStore \cup {dst}
              /\ store[dst].content = prevStore[src].content
              /\ \A f \in DOMAIN prevStore \ {dst} : store[f] = prevStore[f]
              /\ calls = <<BackendCall("copyfile", src, dst, 0)>>
              /\ acts = <<set_selection>>
              /\ err = ""

\* The retry prompt was answered with another name and the copy was made.
C5_Witness ==
    /\ IsResponse /\ ev.retry /\ Truthy(ev.response) /\ ev.response # ev.prompt.arg
    /\ Fmt(ev.response) \notin DOMAIN prevStore
    /\ Fmt(ev.response) \in DOMAIN store
    /\ acts = <<set_selection>>

\* C6: a "no" to remove's confirmation deletes nothing and puts nothing; a file
\* is deleted only while a truthy answer to a "remove <name>" confirmation is
\* handled, and it is the file of the name given at the name step.
C6_RemoveOnlyOnYes ==
    /\ (IsResponse /\ ev.prompt.a = "ask_question" /\ ev.response = PyBool(FALSE))
       => acts = <<>> /\ store = prevStore
    /\ \A f \in DOMAIN prevStore \ DOMAIN store :
        (\E k \in 1..Len(calls) : calls[k].fn = "remove")
        => /\ IsResponse /\ ev.prompt.a = "ask_question" /\ Truthy(ev.response)
           /\ split(ev.identifier)[1] = <<"remove">>
           /\ f = GivenName(ev.identifier)

\* C7: an empty answer to generate's length prompt generates a password of
\* length 15 for the name given at the name step, writes it under that name,
\* clears the selection and asks nothing more.
C7_EmptyLengthMeansFifteen ==
    (IsResponse /\ ev.prompt.text = GenerateLengthPrompt /\ ev.response = PyStr(<<>>))
    => LET name == GivenName(ev.identifier)
           pw == Repeat(ev.env.pwChar, 15)
       IN  /\ calls = <<BackendCall("generate_password", name, <<>>, 15),
                        BackendCall("insert_password", name, pw, 0)>>
           /\ name \in DOMAIN store /\ store[name].content = pw
           /\ acts = <<set_selection>>

\* C8: in the add-OTP flow the answer to the type prompt is taken as the OTP
\* type of the entry named at the first step, never as the secret; and the
\* flow ends in one write, to that entry, of its content, a newline and the
\* provisioning URI of the answered type and secret.
C8_OtpTypeAnswerIsType ==
    /\ (IsResponse /\ ev.prompt.a = "ask_choice" /\ ev.response # PyNone)
       => /\ Len(inv) = 1 /\ inv[1].op = "add_otp"
          /\ inv[1].params[2] = ev.response /\ inv[1].params[3] = PyNone
    /\ (/\ IsResponse /\ flow.op = "add_otp" /\ Len(flow.args) = 3
        /\ Fmt(flow.args[1]) \in DOMAIN prevStore /\ ev.env.gpgOk)
       => LET name == Fmt(flow.args[1])
              kind == IF flow.args[2] = PyStr(<<"TOTP">>) THEN "totp" ELSE "hotp"
          IN  SelectSeq(calls, IsWrite)
                = <<BackendCall("insert_password", name,
                                prevStore[name].content \o <<NL>>
                                    \o provisioning_uri(kind, Fmt(flow.args[3])), 0)>>

\* A plain selection of an entry: depth 1, type entry, no context option.
OpensEntry ==
    /\ ev.kind = "selection" /\ Len(ev.selection) = 1
    /\ ev.selection[1].type = "entry" /\ ev.selection[1].context_option = PyNone

\* What gpg decrypted for it.
OpenedContent == prevStore[ev.selection[1].value].content

IsCopy(x) == x.a = "copy_to_clipboard"
IsAddEntry(x) == x.a = "add_entry"

\* Exactly one clipboard copy, of text, with close right after it, no field
\* listed and the session cache untouched.
CopiesAndCloses(text) ==
    /\ Count(acts, IsCopy) = 1
    /\ \E i \in 1..(Len(acts) - 1) : acts[i] = copy_to_clipboard(text) /\ acts[i + 1] = close
    /\ Count(acts, IsAddEntry) = 0
    /\ cache = prevCache

\* C9 as claimed: opening an entry whose content is exactly one line copies
\* that line and closes.
C9_OneLineCopiesThatLine ==
    (OpensEntry /\ ev.env.gpgOk /\ Len(splitlines(OpenedContent)) = 1)
    => CopiesAndCloses(splitlines(OpenedContent)[1])

\* C9 as amended: opening an entry whose decrypted content, once its trailing
\* whitespace is removed, is exactly one line that is no OTP provisioning URI
\* copies that line and closes; no field is listed and the session cache is
\* unchanged.
C9_OneLineCopiesStrippedLine ==
    LET lines == splitlines(rstrip(OpenedContent))
    IN  (OpensEntry /\ ev.env.gpgOk /\ Len(lines) = 1 /\ ~parse_uri(lines[1]).ok)
        => CopiesAndCloses(lines[1])

\* A one-line entry was opened and its line went to the clipboard.
C9_Witness ==
    /\ OpensEntry /\ ev.env.gpgOk
    /\ OpenedContent = <<"pw", NL>>
    /\ acts = <<replace_entry_list, replace_command_list, copy_to_clipboard(<<"pw">>), close>>

\* C10: opening an entry of n >= 2 lines lists n fields in line order and
\* copies nothing: the first is the placeholder, a later line that is an OTP
\* URI is shown as "OTP: <code>", any other line as it is.
C10_MultiLineListsFields ==
    LET lines == splitlines(rstrip(OpenedContent))
        shown(i) ==
            IF i = 1 THEN Placeholder
            ELSE IF parse_uri(lines[i]).ok
                 THEN <<"OTP", ":", " ">> \o totp_now(parse_uri(lines[i]), ev.env)
                 ELSE lines[i]
    IN  (OpensEntry /\ ev.env.gpgOk /\ Len(lines) >= 2)
        => /\ SelectSeq(acts, IsAddEntry) = [i \in 1..Len(lines) |-> add_entry(shown(i))]
           /\ Count(acts, IsCopy) = 0

\* A field of the list is selected: depth 2.
SelectsField == ev.kind = "selection" /\ Len(ev.selection) = 2

\* The text of s after its first ": ", s itself if it has none.
AfterFirstColon(s) ==
    LET I == {i \in 1..(Len(s) - 1) : s[i] = ":" /\ s[i + 1] = " "}
    IN  IF I = {} THEN s
        ELSE SubSeq(s, (CHOOSE i \in I : \A j \in I : i <= j) + 2, Len(s))

\* C11: a depth-2 selection of a label in the session cache puts exactly
\* copy_to_clipboard then close and leaves the cache empty; the copy carries the
\* whole cached content for the placeholder label, and otherwise the text after
\* the first ": " of the cached content (the whole content if it has none).
C11_FieldCopiesValue ==
    (SelectsField /\ ev.selection[2].value \in DOMAIN prevCache)
    => LET label == ev.selection[2].value
           content == prevCache[label]
       IN  /\ acts = <<copy_to_clipboard(IF label = Placeholder THEN content
                                         ELSE AfterFirstColon(content)),
                       close>>
           /\ cache = EmptyDict
           /\ calls = <<>> /\ err = ""

\* The field "url: x" was selected and "x" went to the clipboard.
C11_Witness ==
    /\ SelectsField
    /\ ev.selection[2].value = <<"url", ":", " ", "x">>
    /\ acts = <<copy_to_clipboard(<<"x">>), close>>
    /\ prevCache # EmptyDict /\ cache = EmptyDict

\* Decrypting the entry selected gave empty content or none at all.
NoContent ==
    \/ ~ev.env.gpgOk
    \/ ev.selection[1].value \notin DOMAIN prevStore
    \/ OpenedContent = <<>>

\* C12: opening an entry whose decryption yields empty or no content puts
\* exactly one set_selection and nothing else, and leaves the session cache
\* unchanged.
C12_NoContentAborts ==
    (OpensEntry /\ NoContent) => acts = <<set_selection>> /\ cache = prevCache

\* Whether a line of the content is an HOTP provisioning URI.
HasHotp(content) ==
    \E i \in 1..Len(splitlines(rstrip(content))) :
        LET otp == parse_uri(splitlines(rstrip(content))[i])
        IN  otp.ok /\ otp.kind = "hotp"

\* C13: opening an entry that holds an HOTP provisioning URI advances its
\* counter in the store: the handler returns, shows a code, and the stored
\* content afterwards differs from the content before.
C13_HotpCounterAdvances ==
    (OpensEntry /\ ev.env.gpgOk /\ ev.selection[1].value \in DOMAIN prevStore
        /\ HasHotp(OpenedContent))
    => /\ err = ""
       /\ \E i \in 1..Len(acts) : acts[i].a \in {"add_entry", "copy_to_clipboard"}
       /\ store[ev.selection[1].value].content # OpenedContent

\* The host loaded the module with an API version below 0.11.1.
InitBelowMinimum ==
    /\ ev.kind = "init"
    /\ \/ ev.env.api[1] < 0
       \/ ev.env.api[1] = 0 /\ ev.env.api[2] < 11
       \/ ev.env.api[1] = 0 /\ ev.env.api[2] = 11 /\ ev.env.api[3] < 1

\* C14: init under a host API version below 0.11.1 puts exactly one action, a
\* critical_error, and nothing else: no base context, no entry listed, no ask.
C14_OldApiOnlyError ==
    InitBelowMinimum
    => /\ Len(acts) = 1 /\ acts[1].a = "critical_error"
       /\ calls = <<>> /\ pending = NoAct

\* The module was loaded under API 0.10.2 and put its one critical_error.
C14_Witness ==
    /\ InitBelowMinimum /\ ev.env.api = <<0, 10, 2>>
    /\ Len(acts) = 1 /\ acts[1].a = "critical_error"

\* The handler listed the store: init under a supported API version, or a
\* return to the main list.
IsListing ==
    \/ ev.kind = "init" /\ ~InitBelowMinimum
    \/ ev.kind = "selection" /\ ev.selection = <<>>

\* What the listing put after its header actions.
ListedActs ==
    LET k == IF ev.kind = "init" THEN 1 ELSE 3
    IN  SubSeq(acts, k + 1, Len(acts))

\* C15: a listing puts, for each store entry and in most-recently-accessed-
\* first order, exactly the three consecutive actions add_entry,
\* set_entry_info, set_entry_context; the context menu has five items: Open,
\* Edit, Copy, Rename, and then Remove under an API version below 0.12.0 and
\* Add OTP otherwise.
C15_ListingPerEntry ==
    IsListing
    => LET n == Cardinality(DOMAIN store)
           entry(j) == ListedActs[3 * j - 2].text
           fifth == IF ev.env.api[1] = 0 /\ ev.env.api[2] < 12
                    THEN <<"Remove">> ELSE <<"Add", " ", "OTP">>
       IN  /\ Len(ListedActs) = 3 * n
           /\ {entry(j) : j \in 1..n} = DOMAIN store
           /\ \A j \in 1..n :
                /\ ListedActs[3 * j - 2] = add_entry(entry(j))
                /\ ListedActs[3 * j - 1].a = "set_entry_info"
                /\ ListedActs[3 * j - 1].text = entry(j)
                /\ ListedActs[3 * j].a = "set_entry_context"
                /\ ListedActs[3 * j].text = entry(j)
                /\ ListedActs[3 * j].list
                     = <<(<<"Open">>), (<<"Edit">>), (<<"Copy">>), (<<"Rename">>), fifth>>
           /\ \A j \in 1..(n - 1) : store[entry(j)].atime >= store[entry(j + 1)].atime
           /\ \A i \in 1..(Len(acts) - Len(ListedActs)) :
                acts[i].a \notin {"add_entry", "set_entry_info", "set_entry_context"}

\* The main list was listed again after a new entry had been written, the new
\* entry first.
C15_Witness ==
    /\ ev.kind = "selection" /\ ev.selection = <<>>
    /\ Cardinality(DOMAIN store) = 4
    /\ Len(ListedActs) = 12
    /\ store[ListedActs[1].text].atime > 3
    /\ ListedActs[3].list[5] = <<"Add", " ", "OTP">>

\* The event handled last has a shape the controller does not recognise: a
\* response whose token does not start with an operation name, a context-less
\* selection that is neither Create nor Generate, a depth-1 selection that is
\* not of an entry or carries an option its context menu does not offer, or a
\* selection of depth 3 or more.
IsUnrecognized ==
    LET sel == ev.selection
        words == split(ev.identifier)
        menu == EntryMenu(ev.env.api)
    IN  \/ /\ ev.kind \in {"response", "stray"} /\ ev.response # PyNone
           /\ (words = <<>> \/ \A op \in Operations : words[1] # <<op>>)
        \/ /\ ev.kind = "selection" /\ Len(sel) = 1 /\ sel[1].type = "none"
           /\ sel[1].context_option \notin {PyStr(<<"Create">>), PyStr(<<"Generate">>)}
        \/ /\ ev.kind = "selection" /\ Len(sel) = 1 /\ sel[1].type \notin {"none", "entry"}
        \/ /\ ev.kind = "selection" /\ Len(sel) = 1 /\ sel[1].type = "entry"
           /\ sel[1].context_option # PyNone
           /\ \A i \in 1..Len(menu) : sel[1].context_option # PyStr(menu[i])
        \/ ev.kind = "selection" /\ Len(sel) >= 3

\* C16: an event of unrecognised shape puts exactly one action, a
\* critical_error, makes no backend call and raises nothing.
C16_UnrecognizedIsError ==
    IsUnrecognized
    => /\ Len(acts) = 1 /\ acts[1].a = "critical_error"
       /\ calls = <<>> /\ err = "" /\ cache = prevCache

\* C17: after an entry of two or more lines is opened, whatever came before,
\* the session cache maps the placeholder to the entry's first line, the first
\* field listed is the placeholder, and the first line is not listed as a label.
C17_PlaceholderHoldsPassword ==
    LET lines == splitlines(rstrip(OpenedContent))
    IN  (OpensEntry /\ ev.env.gpgOk /\ err = "" /\ Len(lines) >= 2)
        => /\ Placeholder \in DOMAIN cache
           /\ cache[Placeholder] = lines[1]
           /\ SelectSeq(acts, IsAddEntry)[1] = add_entry(Placeholder)
           /\ lines[1] # Placeholder => Count(acts, LAMBDA x : x = add_entry(lines[1])) = 0

\* "<operation> <answers so far, space joined>"
FlowToken ==
    join(<<" ">>, <<(<<flow.op>>)>> \o [i \in 1..Len(flow.args) |-> Fmt(flow.args[i])])

\* C18: a non-empty answer to a prompt makes progress.  Unless copy asked again
\* for another name, the prompt that follows, if any, belongs to the operation
\* of the flow, is another prompt than the one answered, and its token is the
\* operation name followed by every answer given so far; and once the
\* operation has had as many answers as it has parameters no prompt is open.
C18_AnswersMakeProgress ==
    /\ (IsResponse /\ Truthy(ev.response) /\ ~retry /\ pending # NoAct)
       => /\ flow.op # "" /\ Len(flow.args) < Arity(flow.op)
          /\ pending.tok = FlowToken
          /\ pending.text # ev.prompt.text
    /\ (IsResponse /\ Truthy(ev.response) /\ ~retry
            /\ flow.op # "" /\ Len(flow.args) = Arity(flow.op))
       => pending = NoAct

\* The prompt p without its default value.
PromptShape(p) == [a |-> p.a, text |-> p.text, tok |-> p.tok, list |-> p.list]

\* C19: an empty-string answer to a prompt other than generate's length prompt
\* and remove's confirmation puts the same prompt again, with the same token,
\* and nothing else: no set_selection, no write, copy, rename or delete.
C19_EmptyAnswerAsksAgain ==
    (IsResponse /\ ev.response = PyStr(<<>>)
        /\ ev.prompt.text # GenerateLengthPrompt /\ ev.prompt.a # "ask_question")
    => /\ Len(acts) = 1
       /\ PromptShape(acts[1]) = PromptShape(ev.prompt)
       /\ Count(calls, IsWrite) = 0
       /\ store = prevStore

IsInitCall(c) == c.fn = "init"

\* C20: module initialization puts no prompt and invokes no operation; and
\* while the host has only answered prompts the controller issued and only
\* selected what was offered, no prompt with an "init" token is open, _init
\* has not been invoked and the backend's store initialization is not called.
C20_InitNeverPrompted ==
    /\ ev.kind = "init" => Count(acts, IsAsk) = 0 /\ pending = NoAct /\ inv = <<>>
    /\ trusted
       => /\ pending # NoAct => split(pending.tok)[1] # <<"init">>
          /\ \A i \in 1..Len(inv) : inv[i].op # "init"
          /\ Count(calls, IsInitCall) = 0

\* The host has kept to what was offered and issued, has answered a prompt of
\* a flow it started from the list, and the flow's next prompt is open.
C20_Witness ==
    /\ trusted /\ phase = "ready" /\ steps >= 2
    /\ ev.kind = "response" /\ Truthy(ev.response) /\ pending # NoAct

====
